---- MODULE Spec2Model ----
(***************************************************************************)
(* Media scan plugin (src/server/src/lib.rs): the scan cycle over the      *)
(* configured locations, the timing cache, the full-reload countdown, the  *)
(* dedup-and-insert pipeline against the event store and the status cell.  *)
(***************************************************************************)
EXTENDS Integers, Sequences, FiniteSets, Bags, TLC

\* ------------------------------------------------------------------ bounds
\* Largest modification time a file of the model carries.
MaxTime == 2
\* Largest configured full_reload_interval.
MaxInterval == 1
\* Number of cycles (calls of update_all_locations) a behaviour runs.
MaxCycles == 3
\* Number of changes the environment makes to the file tree.
MaxFsOps == 2
\* Number of calls (file system, store, cache) that fail in a behaviour.
MaxFaults == 1

\* DateTime::from_timestamp_millis(0): the sentinel cutoff.
Epoch == 0

\* The modification times of the files of the tree: later than the epoch.
FileTimes == (Epoch + 1)..MaxTime

Max(a, b) == IF a > b THEN a ELSE b

Range(s) == {s[i] : i \in DOMAIN s}

\* ------------------------------------------------------------ file system
\* The directories of the tree and the entries the environment may create in
\* them.  An entry is a regular file, a directory or a symlink; a regular
\* file has a name whose extension is a sequence of characters, or has none,
\* or is not valid UTF-8.  The symlink `l` of the subdirectory points at the
\* root: a cycle for a scan that follows symlinks.
RootDir == "m"
SubDir == "m/sub"
Dirs == {RootDir, SubDir}

\* The files whose presence and modification time change between cycles.
Files == {"c", "x", "y"}

Entry ==
    [ c |-> [parent |-> SubDir, kind |-> "file", path_utf8 |-> TRUE,
             path |-> "m/sub/c.png", has_ext |-> TRUE, ext_utf8 |-> TRUE,
             ext |-> <<"P", "n", "G">>],
      x |-> [parent |-> RootDir, kind |-> "file", path_utf8 |-> FALSE,
             path |-> "m/\\xFF1.jpg", has_ext |-> TRUE, ext_utf8 |-> TRUE,
             ext |-> <<"j", "p", "g">>],
      y |-> [parent |-> RootDir, kind |-> "file", path_utf8 |-> FALSE,
             path |-> "m/\\xFF2.jpg", has_ext |-> TRUE, ext_utf8 |-> TRUE,
             ext |-> <<"j", "p", "g">>],
      a |-> [parent |-> RootDir, kind |-> "file", path_utf8 |-> TRUE,
             path |-> "m/a.jpg", has_ext |-> TRUE, ext_utf8 |-> TRUE,
             ext |-> <<"j", "p", "g">>],
      b |-> [parent |-> RootDir, kind |-> "file", path_utf8 |-> TRUE,
             path |-> "m/b.txt", has_ext |-> TRUE, ext_utf8 |-> TRUE,
             ext |-> <<"t", "x", "t">>],
      n |-> [parent |-> RootDir, kind |-> "file", path_utf8 |-> TRUE,
             path |-> "m/README", has_ext |-> FALSE, ext_utf8 |-> TRUE,
             ext |-> <<>>],
      u |-> [parent |-> RootDir, kind |-> "file", path_utf8 |-> FALSE,
             path |-> "m/u.\\xFFpg", has_ext |-> TRUE, ext_utf8 |-> FALSE,
             ext |-> <<"j", "p", "g">>],
      l |-> [parent |-> SubDir, kind |-> "symlink", path_utf8 |-> TRUE,
             path |-> "m/sub/l", has_ext |-> FALSE, ext_utf8 |-> TRUE,
             ext |-> <<>>, target |-> RootDir] ]

\* read_dir's order of the entries of a directory: files, then directories.
DirOrder(dir) ==
    IF dir = RootDir THEN <<"x", "y", "a", "b", "n", "u", SubDir>>
    ELSE IF dir = SubDir THEN <<"c", "l">>
    ELSE <<>>

IsDirEntry(e) == e \in Dirs
IsFileEntry(e) == e \in DOMAIN Entry /\ Entry[e].kind = "file"

RECURSIVE SelectPresent(_, _)
SelectPresent(order, tree) ==
    IF order = <<>> THEN <<>>
    ELSE LET e == Head(order)
             rest == SelectPresent(Tail(order), tree)
         IN IF IsDirEntry(e) \/ e \in DOMAIN tree THEN <<e>> \o rest ELSE rest

\* The entries read_dir yields for `dir` in the tree `tree` (a function from
\* the present files to their modification times).
ReadDir(dir, tree) == SelectPresent(DirOrder(dir), tree)

\* str::to_lowercase applied to an extension, character by character.
LowerChar(ch) ==
    CASE ch = "P" -> "p"
      [] ch = "N" -> "n"
      [] ch = "G" -> "g"
      [] ch = "J" -> "j"
      [] OTHER -> ch

\* An extension compared as it is written.
to_lowercase_AsWritten(s) == s

to_lowercase(s) == [i \in DOMAIN s |-> LowerChar(s[i])]

SUPPORTED_EXTENSIONS ==
    { <<"p", "n", "g">>, <<"j", "p", "g">>, <<"m", "p", "4">>,
      <<"m", "k", "v">>, <<"w", "e", "b", "m">>, <<"j", "p", "e", "g">>,
      <<"m", "o", "v">>, <<"h", "e", "i", "c">>, <<"g", "i", "f">>,
      <<"m", "p", "3">>, <<"o", "p", "u", "s">>, <<"m", "4", "a">> }

\* entry.path().to_str().unwrap_or("default").to_string()
PathString(e) == IF Entry[e].path_utf8 THEN Entry[e].path ELSE "default"

\* ---------------------------------------------------------------- scanner
\* A fault of the file system during one scan: none, or one call that fails.
NoFault == [kind |-> "none", at |-> "-"]

FileCalls == {"next_entry", "file_type", "open", "metadata", "modified"}

FaultsAt(entries) ==
    {NoFault}
    \cup [kind : {"read_dir", "next_entry"}, at : Dirs]
    \cup [kind : FileCalls, at : entries]

ScanFaults == FaultsAt(Files)

ScanOk(found_media, updated_newest) ==
    [status |-> "ok", media |-> found_media, newest |-> updated_newest]
ScanErr == [status |-> "err", media |-> <<>>, newest |-> Epoch]
\* The loop at 453-508 never leaves its current entry.
ScanHang == [status |-> "hang", media |-> <<>>, newest |-> Epoch]

Media(e, location_name, creation_time) ==
    [path |-> PathString(e), time_modified |-> creation_time,
     location_name |-> location_name]

\* The arguments every level of one scan shares.
ScanContext(location_name, current_newest, tree, fault) ==
    [location_name |-> location_name, current_newest |-> current_newest,
     tree |-> tree, fault |-> fault]

RECURSIVE ScanDir(_, _)
RECURSIVE ScanLoop(_, _, _, _, _)

\* A comparison that lets a file as old as the cutoff through.
Newer_OrEqual(creation_time, current_newest) == creation_time >= current_newest

\* Line 488: &creation_time > current_newest.
Newer(creation_time, current_newest) == creation_time > current_newest

\* One regular file entry, lines 466-505; the result is the loop's outcome.
ScanFile(cx, entries, i, found_media, updated_newest) ==
    LET e == entries[i]
        skip == ScanLoop(cx, entries, i + 1, found_media, updated_newest)
    IN IF ~Entry[e].has_ext THEN skip
       ELSE IF ~Entry[e].ext_utf8 THEN skip
       ELSE IF to_lowercase(Entry[e].ext) \notin SUPPORTED_EXTENSIONS THEN skip
       ELSE IF cx.fault.kind = "open" /\ cx.fault.at = e THEN ScanErr
       ELSE IF cx.fault.kind = "metadata" /\ cx.fault.at = e THEN ScanErr
       ELSE IF cx.fault.kind = "modified" /\ cx.fault.at = e THEN ScanHang
       ELSE LET creation_time == cx.tree[e]
            IN IF Newer(creation_time, cx.current_newest)
               THEN ScanLoop(cx, entries, i + 1,
                             Append(found_media,
                                    Media(e, cx.location_name, creation_time)),
                             Max(updated_newest, creation_time))
               ELSE skip

\* The while-let loop, lines 452-510, at entry i of the directory.
ScanLoop(cx, entries, i, found_media, updated_newest) ==
    IF i > Len(entries) THEN ScanOk(found_media, updated_newest)
    ELSE LET e == entries[i]
         IN IF cx.fault.kind = "next_entry" /\ cx.fault.at = e
            THEN ScanOk(found_media, updated_newest)
            ELSE IF cx.fault.kind = "file_type" /\ cx.fault.at = e THEN ScanErr
            ELSE IF IsDirEntry(e)
            THEN LET r == ScanDir(cx, e)
                 IN IF r.status # "ok" THEN r
                    ELSE ScanLoop(cx, entries, i + 1, found_media \o r.media,
                                  Max(updated_newest, r.newest))
            ELSE IF IsFileEntry(e)
            THEN ScanFile(cx, entries, i, found_media, updated_newest)
            ELSE ScanLoop(cx, entries, i + 1, found_media, updated_newest)

\* One level of the recursion: read_dir, then the loop over its entries.
ScanDir(cx, path) ==
    IF cx.fault.kind = "read_dir" /\ cx.fault.at = path THEN ScanErr
    ELSE ScanLoop(cx, ReadDir(path, cx.tree), 1, <<>>, cx.current_newest)

recursive_directory_scan(location_name, path, current_newest, tree, fault) ==
    ScanDir(ScanContext(location_name, current_newest, tree, fault), path)

\* ------------------------------------------------------------ event store
PluginTag == "timeline_plugin_media_scan"

\* Event { timing, id, plugin, event }, lines 337-342.
Event(m) ==
    [timing |-> m.time_modified, id |-> m.path, plugin |-> PluginTag,
     event |-> m]

\* An event another plugin of the host keeps in the same store.
ForeignEvent ==
    [timing |-> 1, id |-> "m/sub/c.png", plugin |-> "other_plugin",
     event |-> [path |-> "m/sub/c.png", time_modified |-> 1,
                location_name |-> "other"]]

SeqToBag(s) ==
    [e \in Range(s) |-> Cardinality({i \in DOMAIN s : s[i] = e})]

\* A query that leaves out the plugin filter.
Find_AnyPlugin(db, paths) == {e \in BagToSet(db) : e.event.path \in paths}

\* find(plugin filter combined with event.path $in paths), lines 346-363.
Find(db, paths) ==
    {e \in BagToSet(db) : e.plugin = PluginTag /\ e.event.path \in paths}

\* A loop whose `found` flag is never set.
Dedup_KeepsAll(events, found) == events

\* The loop at 384-397: the candidates whose id no found event has.
RECURSIVE Dedup(_, _)
Dedup(events, found) ==
    IF events = <<>> THEN <<>>
    ELSE LET rest == Dedup(Tail(events), found)
         IN IF \E existing \in found : existing.id = Head(events).id
            THEN rest
            ELSE <<Head(events)>> \o rest

\* register_events(&insert), line 399: one batched insert.
RegisterEvents(db, events) == db (+) SeqToBag(events)

\* ------------------------------------------------------------------ config
\* config.locations: name -> location.
Locations == [A |-> RootDir, B |-> SubDir]
LocationNames == DOMAIN Locations

\* The orders in which a HashMap may iterate the two locations.
LocationOrders == {<<"A", "B">>, <<"B", "A">>}

\* config.full_reload_interval: <<>> is None, <<v>> is Some(v).
IntervalOptions == {<<>>} \cup {<<v>> : v \in 0..MaxInterval}

\* ------------------------------------------------------------------- state
VARIABLES
    fs,                    \* the tree: present file -> modification time
    fsOps,                 \* changes made to the tree so far
    faults,                \* failed calls so far
    full_reload_interval,  \* config.full_reload_interval
    order,                 \* iteration order of config.locations
    timing_cache,          \* cache.timing_cache: root path -> cutoff
    full_reload_remaining, \* the countdown counter
    current_status,        \* the status cell
    database,              \* the event store, a bag of events
    reported,              \* errors reported in the running cycle
    cycle,                 \* calls of update_all_locations so far
    pc,                    \* position of the running cycle
    idx,                   \* position of the for loop in `order`
    ignore_cache,          \* update_all_locations' local
    latest_time,           \* update_media_directory's locals
    media,
    new_latest_time,
    already_found_media,
    insert,
    log,                   \* the steps of the running location, in order
    started,               \* per location: times its processing started
    last,                  \* per location: its latest finished processing
    prev,                  \* per location: the processing before `last`
    tree_unchanged,        \* no change of the tree since the cycle before
    current_remain,        \* update_all_locations' local: the counter loaded
    counter_stores,        \* stores to the countdown counter so far
    scan,                  \* one call of recursive_directory_scan on its own
    http,                  \* the latest request to a route and its response
    status_writes,         \* writes to the status cell so far
    invocation             \* overlapping calls of update_all_locations

vars ==
    <<fs, fsOps, faults, full_reload_interval, order, timing_cache,
      full_reload_remaining, current_status, database, reported, cycle, pc,
      idx, ignore_cache, latest_time, media, new_latest_time,
      already_found_media, insert, log, started, last, prev, tree_unchanged,
      current_remain, counter_stores, scan, http, status_writes,
      invocation>>

\* A status that names the first location whatever location is processed.
Busy_FirstLocation(location_name) ==
    [tag |-> "Busy", at |-> 0, name |-> order[1]]

Waiting(since) == [tag |-> "Waiting", at |-> since, name |-> "-"]
Busy(name) == [tag |-> "Busy", at |-> 0, name |-> name]

\* A record of one finished processing of a location.
NoRun ==
    [outcome |-> "none", full |-> FALSE, cutoff |-> Epoch,
     cached_before |-> <<>>, media |-> <<>>, newest |-> Epoch,
     delta |-> <<>>, cached_after |-> <<>>, complete |-> FALSE,
     tree_unchanged |-> FALSE]

\* timing_cache.get(location), as an Option: <<>> or <<v>>.
CacheGet(cache, location) ==
    IF location \in DOMAIN cache THEN <<cache[location]>> ELSE <<>>

\* An insert that keeps only the entry it writes.
CacheInsert_DropsOthers(cache, location, value) ==
    [l \in {location} |-> value]

\* timing_cache.insert(location, value)
CacheInsert(cache, location, value) ==
    [l \in DOMAIN cache \cup {location} |->
        IF l = location THEN value ELSE cache[l]]

\* A counter that starts at zero whatever the configuration.
InitialRemaining_Zero(interval) == 0

\* Lines 128-131: the counter starts at the configured interval.
InitialRemaining(interval) == IF interval = <<>> THEN 0 ELSE interval[1]

\* No request has been made to a route.
NoRequest == [route |-> "none"]

\* The futures of update_all_locations the host may hold at one time, and
\* each one's position and locals when none has been polled.
Invocations == {"first", "second"}
NoInvocations ==
    [t \in Invocations |->
        [pc |-> "idle", current_remain |-> 0, ignore_cache |-> FALSE]]

\* No call of the scanner on its own is under way.
NoScan == [state |-> "none"]

\* The tree when the plugin is constructed: one file, in the subdirectory.
InitialTrees == {[g \in {"c"} |-> MaxTime]}

\* Plugin::new, lines 101-138, on the configuration and the tree it finds.
InitPluginOn(trees) ==
    /\ fs \in trees
    /\ fsOps = 0
    /\ faults = 0
    /\ full_reload_interval \in IntervalOptions
    /\ order \in LocationOrders
    /\ timing_cache = <<>>
    /\ full_reload_remaining = InitialRemaining(full_reload_interval)
    /\ current_status = Waiting(0)
    /\ database = SetToBag({ForeignEvent})
    /\ reported = {}
    /\ cycle = 0
    /\ pc = "idle"
    /\ idx = 0
    /\ ignore_cache = FALSE
    /\ latest_time = Epoch
    /\ media = <<>>
    /\ new_latest_time = Epoch
    /\ already_found_media = {}
    /\ insert = <<>>
    /\ log = <<>>
    /\ started = [n \in LocationNames |-> 0]
    /\ last = [n \in LocationNames |-> NoRun]
    /\ prev = [n \in LocationNames |-> NoRun]
    /\ tree_unchanged = FALSE
    /\ current_remain = 0
    /\ counter_stores = 0
    /\ status_writes = 0
    /\ http = NoRequest
    /\ invocation = NoInvocations

InitPlugin == InitPluginOn(InitialTrees)

Init == InitPlugin /\ scan = NoScan

\* ------------------------------------------------------------- environment
\* The environment creates a file or sets an existing file's modification
\* time, between two cycles.
FsWrite(f, t) ==
    /\ pc = "idle"
    /\ cycle < MaxCycles
    /\ fsOps < MaxFsOps
    /\ CacheGet(fs, f) # <<t>>
    /\ fs' = [g \in DOMAIN fs \cup {f} |-> IF g = f THEN t ELSE fs[g]]
    /\ fsOps' = fsOps + 1
    /\ tree_unchanged' = FALSE
    /\ UNCHANGED <<scan, invocation, current_remain, counter_stores, http, status_writes,
                   faults, full_reload_interval, order, timing_cache,
                   full_reload_remaining, current_status, database, reported,
                   cycle, pc, idx, ignore_cache, latest_time, media,
                   new_latest_time, already_found_media, insert, log, started,
                   last, prev>>

\* The environment removes a file, between two cycles.
FsRemove(f) ==
    /\ pc = "idle"
    /\ cycle < MaxCycles
    /\ fsOps < MaxFsOps
    /\ f \in DOMAIN fs
    /\ fs' = [g \in DOMAIN fs \ {f} |-> fs[g]]
    /\ fsOps' = fsOps + 1
    /\ tree_unchanged' = FALSE
    /\ UNCHANGED <<scan, invocation, current_remain, counter_stores, http, status_writes,
                   faults, full_reload_interval, order, timing_cache,
                   full_reload_remaining, current_status, database, reported,
                   cycle, pc, idx, ignore_cache, latest_time, media,
                   new_latest_time, already_found_media, insert, log, started,
                   last, prev>>

\* ------------------------------------------------------ update_all_locations
\* Lines 256-272: the reload decision of the cycle.
\* A decision that reads the counter whether or not an interval is configured.
IgnoreCache_WithoutInterval(interval, remaining) == remaining = 0

IgnoreCache(interval, remaining) ==
    IF interval = <<>> THEN FALSE ELSE remaining = 0

\* A countdown that decrements the counter whatever its value.
RemainingAfter_AlwaysDecrements(interval, remaining) ==
    IF interval = <<>> THEN remaining ELSE remaining - 1

\* A countdown that, at zero, leaves the counter at zero.
RemainingAfter_NoReset(interval, remaining) ==
    IF interval = <<>> THEN remaining
    ELSE IF remaining = 0 THEN 0
    ELSE remaining - 1

\* Lines 261 and 265-266: the value stored to the counter; none is stored
\* when no interval is configured.
RemainingAfter(interval, remaining) ==
    IF interval = <<>> THEN remaining
    ELSE IF remaining = 0 THEN interval[1]
    ELSE remaining - 1

update_all_locations_begin ==
    /\ pc = "idle"
    /\ cycle < MaxCycles
    /\ cycle' = cycle + 1
    /\ ignore_cache' = IgnoreCache(full_reload_interval, full_reload_remaining)
    /\ full_reload_remaining' =
          RemainingAfter(full_reload_interval, full_reload_remaining)
    /\ current_remain' =
          IF full_reload_interval = <<>> THEN current_remain
          ELSE full_reload_remaining
    /\ counter_stores' =
          IF full_reload_interval = <<>> THEN counter_stores
          ELSE counter_stores + 1
    /\ idx' = 1
    /\ pc' = "for"
    /\ reported' = {}
    /\ started' = [n \in LocationNames |-> 0]
    /\ UNCHANGED <<scan, invocation, http, status_writes,
                   fs, fsOps, faults, full_reload_interval, order,
                   timing_cache, current_status, database, latest_time, media,
                   new_latest_time, already_found_media, insert, log, last,
                   prev, tree_unchanged>>

\* Lines 273-278: the loop takes the next location and sets Busy(name).
update_all_locations_busy ==
    /\ pc = "for"
    /\ idx <= Len(order)
    /\ current_status' = Busy(order[idx])
    /\ status_writes' = status_writes + 1
    /\ started' = [started EXCEPT ![order[idx]] = @ + 1]
    /\ log' = <<>>
    /\ pc' = "cutoff"
    /\ UNCHANGED <<scan, invocation, current_remain, counter_stores, http,
                   fs, fsOps, faults, full_reload_interval, order,
                   timing_cache, full_reload_remaining, database, reported, cycle, idx,
                   ignore_cache, latest_time, media, new_latest_time,
                   already_found_media, insert, last, prev, tree_unchanged>>

\* Lines 282-283: the loop is over, the status becomes Waiting(now).
update_all_locations_end ==
    /\ pc = "for"
    /\ idx > Len(order)
    /\ current_status' = Waiting(cycle)
    /\ status_writes' = status_writes + 1
    /\ pc' = "idle"
    /\ idx' = 0
    /\ tree_unchanged' = TRUE
    /\ UNCHANGED <<scan, invocation, current_remain, counter_stores, http,
                   fs, fsOps, faults, full_reload_interval, order,
                   timing_cache, full_reload_remaining, database, reported, cycle,
                   ignore_cache, latest_time, media, new_latest_time,
                   already_found_media, insert, log, started, last, prev>>

\* ---------------------------------------------------- update_media_directory
name == order[idx]
location == Locations[name]

\* Lines 335-343: the scanned items as events.
MediaEvents(found) == [i \in DOMAIN found |-> Event(found[i])]

\* What a scan of the location with no failing call returns, as events.
FullScan(n, root, cutoff) ==
    MediaEvents(recursive_directory_scan(n, root, cutoff, fs, NoFault).media)

\* A loop that takes a location again when its processing failed.
NextIndex_RetriesAtOnce(i, outcome) ==
    IF outcome \in {"ok", "empty"} THEN i + 1 ELSE i

\* A loop that stops at the first location whose processing failed.
NextIndex_StopsOnFailure(i, outcome) ==
    IF outcome \in {"ok", "empty"} THEN i + 1 ELSE Len(order) + 1

\* Lines 273-280: whatever update_media_directory did, the for loop goes on
\* with the next location.
NextIndex(i, outcome) == i + 1

\* update_media_directory returns: the loop goes on with the next location.
\* `outcome` names the exit taken, `cache` the timing cache it leaves,
\* `steps` the steps of this processing.
Return(outcome, cache, steps) ==
    /\ pc' = "for"
    /\ idx' = NextIndex(idx, outcome)
    /\ timing_cache' = cache
    /\ latest_time' = Epoch
    /\ media' = <<>>
    /\ new_latest_time' = Epoch
    /\ already_found_media' = {}
    /\ insert' = <<>>
    /\ log' = steps
    /\ reported' =
          IF outcome \in {"ok", "empty"} THEN reported
          ELSE reported \cup {<<name, outcome>>}
    /\ prev' = [prev EXCEPT ![name] = last[name]]
    /\ last' = [last EXCEPT ![name] =
          [outcome |-> outcome, full |-> ignore_cache,
           cutoff |-> latest_time,
           cached_before |-> CacheGet(timing_cache, location),
           media |-> media, newest |-> new_latest_time, delta |-> insert,
           cached_after |-> CacheGet(cache, location),
           complete |-> media = FullScan(name, location, latest_time),
           tree_unchanged |-> tree_unchanged]]

\* A modify whose update is kept although persisting it failed.
CacheModify_KeepsFailedWrite(cache, loc, value, ok) ==
    CacheInsert(cache, loc, value)

\* Cache::modify persists the updated copy or fails and changes nothing.
CacheModify(cache, loc, value, ok) ==
    IF ok THEN CacheInsert(cache, loc, value) ELSE cache

\* A failed query that advances the cutoff all the same.
OnQueryErr_Advances(cache, loc, newest) == CacheInsert(cache, loc, newest)

\* Lines 364-382: a failed query is reported; the cache is left alone.
OnQueryErr(cache, loc, newest) == cache

\* A failed insert that advances the cutoff all the same.
OnInsertErr_Advances(cache, loc, newest) == CacheInsert(cache, loc, newest)

\* Lines 414-419: a failed insert is reported; the cache is left alone.
OnInsertErr(cache, loc, newest) == cache

\* Lines 295-323: the cutoff this cycle scans the location with.
LatestTime(full_reload, last_cache) ==
    IF ~full_reload /\ last_cache # <<>> THEN last_cache[1] ELSE Epoch

\* A call may fail while the behaviour has failures left.
Outcomes == IF faults < MaxFaults THEN {TRUE, FALSE} ELSE {TRUE}

Failed(ok) == faults' = IF ok THEN faults ELSE faults + 1

\* Lines 287-323.
update_media_directory_cutoff ==
    /\ pc = "cutoff"
    /\ LET last_cache == CacheGet(timing_cache, location)
       IN IF ~ignore_cache /\ last_cache = <<>>
          THEN \E ok \in Outcomes :
                 LET cache == CacheModify(timing_cache, location, Epoch, ok)
                 IN /\ Failed(ok)
                    /\ IF ok
                       THEN /\ timing_cache' = cache
                            /\ latest_time' = cache[location]
                            /\ log' = Append(log, "sentinel_ok")
                            /\ pc' = "scan"
                            /\ UNCHANGED <<idx, media, new_latest_time,
                                           already_found_media, insert,
                                           reported, last, prev>>
                       ELSE Return("persist_err", cache,
                                   Append(log, "sentinel_err"))
          ELSE /\ latest_time' = LatestTime(ignore_cache, last_cache)
               /\ pc' = "scan"
               /\ UNCHANGED <<faults, timing_cache, idx, media,
                              new_latest_time, already_found_media, insert,
                              reported, log, last, prev>>
    /\ UNCHANGED <<scan, invocation, current_remain, counter_stores, http, status_writes,
                   fs, fsOps, full_reload_interval, order,
                   full_reload_remaining, current_status, database, cycle,
                   ignore_cache, started, tree_unchanged>>

\* Lines 324-343.
update_media_directory_scan ==
    /\ pc = "scan"
    /\ \E fault \in ScanFaults :
         LET r == recursive_directory_scan(name, location, latest_time, fs,
                                           fault)
         IN /\ fault # NoFault => faults < MaxFaults
            /\ Failed(fault = NoFault)
            /\ CASE r.status = "ok" ->
                      /\ media' = MediaEvents(r.media)
                      /\ new_latest_time' = r.newest
                      /\ log' = Append(log, "scan_ok")
                      /\ pc' = "query"
                      /\ UNCHANGED <<timing_cache, idx, latest_time,
                                     already_found_media, insert, reported,
                                     last, prev>>
                 [] r.status = "err" ->
                      Return("scan_err", timing_cache,
                             Append(log, "scan_err"))
                 [] OTHER ->
                      /\ pc' = "hung"
                      /\ UNCHANGED <<timing_cache, idx, latest_time, media,
                                     new_latest_time, already_found_media,
                                     insert, reported, log, last, prev>>
    /\ UNCHANGED <<scan, invocation, current_remain, counter_stores, http, status_writes,
                   fs, fsOps, full_reload_interval, order,
                   full_reload_remaining, current_status, database, cycle,
                   ignore_cache, started, tree_unchanged>>

\* Line 345.
Paths(events) == {events[i].event.path : i \in DOMAIN events}

\* A query step that reports a failed query and goes on to the insert.
update_media_directory_query_GoesOn ==
    /\ pc = "query"
    /\ \E ok \in Outcomes :
         /\ Failed(ok)
         /\ IF ok
            THEN LET found == Find(database, Paths(media))
                 IN /\ already_found_media' = found
                    /\ insert' = Dedup(media, found)
                    /\ log' = Append(log, "query_ok")
                    /\ pc' = "register"
                    /\ UNCHANGED <<timing_cache, idx, latest_time, media,
                                   new_latest_time, reported, last, prev>>
            ELSE /\ already_found_media' = {}
                 /\ insert' = media
                 /\ log' = Append(log, "query_err")
                 /\ pc' = "register"
                 /\ UNCHANGED <<timing_cache, idx, latest_time, media,
                                new_latest_time, reported, last, prev>>
    /\ UNCHANGED <<scan, invocation, current_remain, counter_stores, http, status_writes,
                   fs, fsOps, full_reload_interval, order,
                   full_reload_remaining, current_status, database, cycle,
                   ignore_cache, started, tree_unchanged>>

\* Lines 345-397: the batched query, then the delta.  find (375) and
\* try_collect (367) fail the same way: report and return.
update_media_directory_query ==
    /\ pc = "query"
    /\ \E ok \in Outcomes :
         /\ Failed(ok)
         /\ IF ok
            THEN LET found == Find(database, Paths(media))
                 IN /\ already_found_media' = found
                    /\ insert' = Dedup(media, found)
                    /\ log' = Append(log, "query_ok")
                    /\ pc' = "register"
                    /\ UNCHANGED <<timing_cache, idx, latest_time, media,
                                   new_latest_time, reported, last, prev>>
            ELSE Return("query_err",
                        OnQueryErr(timing_cache, location, new_latest_time),
                        Append(log, "query_err"))
    /\ UNCHANGED <<scan, invocation, current_remain, counter_stores, http, status_writes,
                   fs, fsOps, full_reload_interval, order,
                   full_reload_remaining, current_status, database, cycle,
                   ignore_cache, started, tree_unchanged>>

\* Lines 398-399 and 414-420: the batched insert of a non-empty delta.
update_media_directory_register ==
    /\ pc = "register"
    /\ IF insert = <<>>
       THEN /\ Return("empty", timing_cache, log)
            /\ UNCHANGED <<database, faults>>
       ELSE \E ok \in Outcomes :
              /\ Failed(ok)
              /\ IF ok
                 THEN /\ database' = RegisterEvents(database, insert)
                      /\ log' = Append(log, "insert_ok")
                      /\ pc' = "advance"
                      /\ UNCHANGED <<timing_cache, idx, latest_time, media,
                                     new_latest_time, already_found_media,
                                     insert, reported, last, prev>>
                 ELSE /\ Return("insert_err",
                                OnInsertErr(timing_cache, location,
                                            new_latest_time),
                                Append(log, "insert_err"))
                      /\ UNCHANGED database
    /\ UNCHANGED <<scan, invocation, current_remain, counter_stores, http, status_writes,
                   fs, fsOps, full_reload_interval, order,
                   full_reload_remaining, current_status, cycle,
                   ignore_cache, started, tree_unchanged>>

\* Lines 400-413: the cutoff is written after the insert returned Ok.
update_media_directory_advance ==
    /\ pc = "advance"
    /\ \E ok \in Outcomes :
         /\ Failed(ok)
         /\ Return(IF ok THEN "ok" ELSE "advance_err",
                   CacheModify(timing_cache, location, new_latest_time, ok),
                   Append(log, IF ok THEN "advance_ok" ELSE "advance_err"))
    /\ UNCHANGED <<scan, invocation, current_remain, counter_stores, http, status_writes,
                   fs, fsOps, full_reload_interval, order,
                   full_reload_remaining, current_status, database, cycle,
                   ignore_cache, started, tree_unchanged>>

Next ==
    \/ \E f \in Files, t \in FileTimes : FsWrite(f, t)
    \/ \E f \in Files : FsRemove(f)
    \/ update_all_locations_begin
    \/ update_all_locations_busy
    \/ update_all_locations_end
    \/ update_media_directory_cutoff
    \/ update_media_directory_scan
    \/ update_media_directory_query
    \/ update_media_directory_register
    \/ update_media_directory_advance

Spec == Init /\ [][Next]_vars

\* ------------------------------------------ recursive_directory_scan alone
\* One call of the scanner, on every tree over these entries, every cutoff
\* and every single failing call: a jpg, a txt, a file without extension, a
\* file whose extension is not UTF-8 and a file whose name is not UTF-8 in
\* the root; a PnG and a symlink to the root in the subdirectory.
ScanEntries == {"a", "b", "c", "n", "u", "x", "l"}

\* The entries whose modification time varies; the others carry MaxTime.
TimedEntries == {"a", "b", "c", "x"}

ScanTrees ==
    UNION { {t \in [S -> FileTimes] :
               \A e \in S \ TimedEntries : t[e] = MaxTime} :
            S \in SUBSET ScanEntries }

Cutoffs == Epoch..MaxTime

ScanCalls ==
    [state : {"called"}, location_name : LocationNames,
     current_newest : Cutoffs, tree : ScanTrees,
     fault : FaultsAt(ScanEntries), result : {ScanOk(<<>>, Epoch)}]

InitScan ==
    /\ InitPlugin
    /\ full_reload_interval = <<>>
    /\ order = <<"A", "B">>
    /\ scan \in ScanCalls

\* The call runs to its end: it returns Ok or Err, or its loop goes round on
\* one entry for ever.
recursive_directory_scan_call ==
    /\ scan.state = "called"
    /\ LET r == recursive_directory_scan(scan.location_name,
                                         Locations[scan.location_name],
                                         scan.current_newest, scan.tree,
                                         scan.fault)
       IN scan' = [scan EXCEPT
                     !.state = IF r.status = "hang" THEN "looping"
                               ELSE "returned",
                     !.result = r]
    /\ UNCHANGED <<fs, fsOps, faults, full_reload_interval, order,
                   timing_cache, full_reload_remaining, current_status,
                   database, reported, cycle, pc, idx, ignore_cache,
                   latest_time, media, new_latest_time, already_found_media,
                   insert, log, started, last, prev, tree_unchanged,
                   current_remain, counter_stores, http, status_writes,
                   invocation>>

NextScan == recursive_directory_scan_call

SpecScan == InitScan /\ [][NextScan]_vars

\* ------------------------------------------- update_all_locations, overlapping
\* request_loop takes &self (147-155), so the host can hold two futures of
\* update_all_locations on one plugin and a multi-threaded executor can poll
\* them at the same time.  Beside the counter each invocation has its own
\* locals; the rest of the cycle (273-283) does not touch the counter.
OverlapFrame ==
    UNCHANGED <<fs, fsOps, faults, full_reload_interval, order, timing_cache,
                current_status, database, reported, pc, idx, ignore_cache,
                latest_time, media, new_latest_time, already_found_media,
                insert, log, started, last, prev, tree_unchanged,
                current_remain, scan, http, status_writes>>

\* Lines 256-258 and 271: the call begins; with an interval configured it
\* loads the counter.
update_all_locations_load(t) ==
    /\ invocation[t].pc = "idle"
    /\ cycle < MaxCycles
    /\ cycle' = cycle + 1
    /\ invocation' =
          [invocation EXCEPT ![t] =
              IF full_reload_interval = <<>>
              THEN [pc |-> "for", current_remain |-> 0,
                    ignore_cache |-> FALSE]
              ELSE [pc |-> "loaded",
                    current_remain |-> full_reload_remaining,
                    ignore_cache |-> FALSE]]
    /\ UNCHANGED <<full_reload_remaining, counter_stores>>
    /\ OverlapFrame

\* Lines 259-269: the store of the value computed from the loaded one.
update_all_locations_store(t) ==
    /\ invocation[t].pc = "loaded"
    /\ full_reload_remaining' =
          RemainingAfter(full_reload_interval, invocation[t].current_remain)
    /\ counter_stores' = counter_stores + 1
    /\ invocation' =
          [invocation EXCEPT ![t] =
              [pc |-> "for", current_remain |-> invocation[t].current_remain,
               ignore_cache |->
                  IgnoreCache(full_reload_interval,
                              invocation[t].current_remain)]]
    /\ UNCHANGED cycle
    /\ OverlapFrame

\* Lines 273-283: the locations are processed and Waiting is written.
update_all_locations_rest(t) ==
    /\ invocation[t].pc = "for"
    /\ invocation' =
          [invocation EXCEPT ![t] =
              [pc |-> "idle", current_remain |-> 0, ignore_cache |-> FALSE]]
    /\ UNCHANGED <<full_reload_remaining, counter_stores, cycle>>
    /\ OverlapFrame

NextOverlap ==
    \/ \E t \in Invocations : update_all_locations_load(t)
    \/ \E t \in Invocations : update_all_locations_store(t)
    \/ \E t \in Invocations : update_all_locations_rest(t)

SpecOverlap == Init /\ [][NextOverlap]_vars

\* ---------------------------------------------------------- signing service
\* config.signing_key, and a key the plugin does not hold.
ConfigKey == "config.signing_key"
ForeignKey == "foreign_key"
PrivateKeys == {ConfigKey, ForeignKey}

\* Lines 123-124: SigningKey::new(key) and its verifying_key().
SigningKeyOf(key) == [private |-> key]
VerifyingKeyOf(signing_key) == [public_of |-> signing_key.private]

signing_key == SigningKeyOf(ConfigKey)
verifying_key == VerifyingKeyOf(signing_key)

\* The random sources sign_string may draw from thread_rng.
Rngs == {"r1", "r2"}

\* The strings a request or an event carries as a path: an indexed file,
\* the placeholder path, a file outside every location, a name that is not
\* ASCII ("e-acute" stands for the letter) and a string with a NUL byte,
\* which no file system path holds.
IndexedPath == "m/sub/c.png"
NulPath == "m/a<NUL>.jpg"
PathStrings == {IndexedPath, "default", "/etc/passwd", "m/e-acute.jpg", NulPath}

\* string.as_bytes(): the bytes of the string, nothing normalised.
as_bytes(string) == [utf8 |-> string]

\* Byte strings that are no signature of any key over any message: the
\* bytes of sign(p) with a bit flipped, and bytes of the wrong length.
AlteredBytes ==
    [kind |-> "signature", signer |-> "-", over |-> "-", pad |-> "-"]
MalformedBytes ==
    [kind |-> "malformed", signer |-> "-", over |-> "-", pad |-> "-"]

\* signing_key.sign_with_rng(&mut rng, bytes).to_vec(), line 233.
sign_with_rng(key, rng, bytes) ==
    [kind |-> "signature", signer |-> key.private, over |-> bytes,
     pad |-> rng]

\* BASE64_STANDARD.encode, line 234: text in the standard alphabet.
Encode(bytes) == [alphabet |-> "standard", bytes |-> bytes]

\* A decoder for the URL-safe alphabet.
Decode_UrlSafe(text) ==
    IF text.alphabet = "url_safe" THEN <<text.bytes>> ELSE <<>>

\* BASE64_STANDARD.decode, line 238: Ok(bytes) as <<bytes>>, Err as <<>>.
Decode(text) ==
    IF text.alphabet = "standard" THEN <<text.bytes>> ELSE <<>>

\* Signature::try_from(bytes_slice), line 246.
SignatureTryFrom(bytes) ==
    IF bytes.kind = "signature" THEN <<bytes>> ELSE <<>>

\* verifying_key.verify(bytes, &signature).is_ok(), lines 243-251.
Verify(key, bytes, signature) ==
    signature.signer = key.public_of /\ signature.over = bytes

\* Lines 231-235.
sign_string(key, rng, string) ==
    Encode(sign_with_rng(key, rng, as_bytes(string)))

\* A verify that takes text it cannot decode for a valid signature.
OnDecodeErr_Accepts == TRUE

\* Line 240: Err(_e) => return false.
OnDecodeErr == FALSE

\* Lines 237-252.
verify_string(key, string, signature) ==
    LET bytes == Decode(signature)
    IN IF bytes = <<>> THEN OnDecodeErr
       ELSE LET sig == SignatureTryFrom(bytes[1])
            IN IF sig = <<>> THEN FALSE
               ELSE Verify(key, as_bytes(string), sig[1])

\* The texts a request may carry as its signature: signatures of either
\* key over any path, text that is not base64, base64 of malformed bytes
\* and base64 of an altered signature.
SignatureStrings ==
    {sign_string(SigningKeyOf(k), r, q) :
        k \in PrivateKeys, r \in Rngs, q \in PathStrings}
    \cup {[alphabet |-> "none", bytes |-> MalformedBytes],
          Encode(MalformedBytes), Encode(AlteredBytes)}

\* -------------------------------------------------------------- get_file
\* The files File::open can open.
OpenablePaths == {IndexedPath, "/etc/passwd"}

\* File::open(v).await: Ok(File) or Err(io::Error).
FileOpen(path) ==
    IF path \in OpenablePaths THEN [ok |-> TRUE, file |-> path]
    ELSE [ok |-> FALSE, file |-> "-"]

NoBody == [ok |-> FALSE, file |-> "-"]

\* PathBuf::from_str(file), line 212: its Err type is Infallible, every
\* string is a path.  Ok(v) as <<v>>.
PathBuf_from_str(file) == <<file>>

\* A handler that serves every request.
Authorized_Everyone(file, signature) == TRUE

\* Line 209: verify_string(&verifying_key.inner().0, file, signature).
Authorized(file, signature) == verify_string(verifying_key, file, signature)

\* Lines 203-216: the handler's return value (Status, Option<Result<File>>)
\* and whether File::open was called.
get_file_response(file, signature) ==
    IF ~Authorized(file, signature)
    THEN [status |-> "Unauthorized", some |-> FALSE, body |-> NoBody,
          open_called |-> FALSE]
    ELSE LET v == PathBuf_from_str(file)
         IN IF v # <<>>
            THEN [status |-> "Ok", some |-> TRUE, body |-> FileOpen(v[1]),
                  open_called |-> TRUE]
            ELSE [status |-> "BadRequest", some |-> FALSE, body |-> NoBody,
                  open_called |-> FALSE]

\* The frame of a request handler: it changes `http` only.
HandlerFrame ==
    UNCHANGED <<fs, fsOps, faults, full_reload_interval, order, timing_cache,
                full_reload_remaining, current_status, database, reported,
                cycle, pc, idx, ignore_cache, latest_time, media,
                new_latest_time, already_found_media, insert, log, started,
                last, prev, tree_unchanged, current_remain, counter_stores,
                scan, status_writes, invocation>>

get_file(file, signature) ==
    /\ http' = [route |-> "file", file |-> file, signature |-> signature,
                response |-> get_file_response(file, signature)]
    /\ HandlerFrame

\* sign_string and verify_string on their own: a path is signed, and the
\* signature, or the signature altered, is verified against a path.
Alterations == {"none", "bit_flipped", "truncated", "not_base64"}

Alter(text, how) ==
    CASE how = "none" -> text
      [] how = "bit_flipped" -> Encode(AlteredBytes)
      [] how = "truncated" -> Encode(MalformedBytes)
      [] OTHER -> [alphabet |-> "none", bytes |-> text.bytes]

sign_then_verify(p, rng, how, q) ==
    /\ LET signature == sign_string(signing_key, rng, p)
       IN http' = [route |-> "sign", signed |-> p, rng |-> rng,
                   signature |-> signature, altered |-> how, verified |-> q,
                   result |-> verify_string(verifying_key, q,
                                            Alter(signature, how))]
    /\ HandlerFrame

NextSign ==
    \/ \E file \in PathStrings, signature \in SignatureStrings :
          get_file(file, signature)
    \/ \E p \in PathStrings, rng \in Rngs, how \in Alterations,
          q \in PathStrings : sign_then_verify(p, rng, how, q)

InitSign ==
    /\ InitPlugin
    /\ full_reload_interval = <<>>
    /\ order = <<"A", "B">>
    /\ scan = NoScan

SpecSign == InitSign /\ [][NextSign]_vars

\* ------------------------------------------------------------------ claims
LastOf(s) == s[Len(s)]

\* C1: the cutoff cached for a location never decreases, whatever the
\* cycles (incremental or forced full reload), the changes of the tree
\* between them and the failures.
C1_CutoffNeverDecreases ==
    [][\A r \in DOMAIN timing_cache :
          r \in DOMAIN timing_cache' /\ timing_cache'[r] >= timing_cache[r]]_vars

\* C2: a location's cached cutoff is set to the scan's newCutoff only by the
\* step that follows a successful insert of that location's delta (the only
\* other write is the epoch sentinel of a first encounter); and after a cycle
\* in which the query or the insert of a location failed, the location's
\* cached cutoff is the one it had when the failing call was made.
C2_AdvanceOnlyAfterInsert ==
    /\ [][\A r \in Dirs :
            CacheGet(timing_cache', r) # CacheGet(timing_cache, r) =>
               \/ /\ pc = "cutoff"
                  /\ r = location
                  /\ CacheGet(timing_cache, r) = <<>>
                  /\ timing_cache'[r] = Epoch
               \/ /\ pc = "advance"
                  /\ r = location
                  /\ LastOf(log) = "insert_ok"
                  /\ \A i \in DOMAIN insert : BagIn(insert[i], database)
                  /\ timing_cache'[r] = new_latest_time]_vars
    /\ [](\A n \in LocationNames :
            (pc = "idle" /\ last[n].outcome \in {"query_err", "insert_err"})
               => CacheGet(timing_cache, Locations[n]) = last[n].cached_before)

\* A cycle has ended in which a location's insert failed and the scan had
\* returned a newCutoff other than the cached cutoff.
C2_Witness ==
    /\ pc = "idle"
    /\ \E n \in LocationNames :
         /\ last[n].outcome = "insert_err"
         /\ last[n].cached_before # <<last[n].newest>>
         /\ CacheGet(timing_cache, Locations[n]) = last[n].cached_before

\* The cutoff a cache entry stands for: the epoch when there is none.
Cutoff(entry) == IF entry = <<>> THEN Epoch ELSE entry[1]

\* A processing in which no call failed: the scan read the whole tree, the
\* query, the insert (if one was issued) and the cache writes returned Ok.
Succeeded(run) == run.outcome \in {"ok", "empty"} /\ run.complete

\* C3: when the insert of a location fails in cycle N, the cutoff is
\* unchanged after cycle N, and cycle N+1 (incremental, tree unchanged, no
\* failing call) scans with the same cutoff, gets the same items, inserts
\* them and advances the cutoff to the scan's newCutoff.
C3_RetryAfterFailedInsert ==
    \A n \in LocationNames :
       prev[n].outcome = "insert_err" =>
          /\ prev[n].cached_after = prev[n].cached_before
          /\ (Succeeded(last[n]) /\ ~last[n].full /\ last[n].tree_unchanged)
                => /\ last[n].cutoff = prev[n].cutoff
                   /\ last[n].media = prev[n].media
                   /\ last[n].outcome = "ok"
                   /\ Cutoff(last[n].cached_after) = last[n].newest

\* C4: whenever the scan, the query, the commit of the remainder and the
\* cache writes of a location all succeed, the location's cached cutoff at
\* the end of its processing is the newCutoff the scan returned, for every
\* size of the remainder.
C4_CutoffIsNewCutoffOnSuccess ==
    \A n \in LocationNames :
       Succeeded(last[n]) => Cutoff(last[n].cached_after) = last[n].newest

\* C6: the store never holds two events of this plugin with the same path.
C6_NoTwoEventsSamePath ==
    \A e \in BagToSet(database) :
       e.plugin = PluginTag =>
          /\ CopiesIn(e, database) = 1
          /\ \A e2 \in BagToSet(database) :
                (e2.plugin = PluginTag /\ e2.event.path = e.event.path)
                   => e2 = e

\* The logs of one processing: the steps in their order, each step only
\* after the step before it returned Ok.
Chains ==
    { <<>>, <<"scan_err">>, <<"scan_ok">>,
      <<"scan_ok", "query_err">>, <<"scan_ok", "query_ok">>,
      <<"scan_ok", "query_ok", "insert_err">>,
      <<"scan_ok", "query_ok", "insert_ok">>,
      <<"scan_ok", "query_ok", "insert_ok", "advance_err">>,
      <<"scan_ok", "query_ok", "insert_ok", "advance_ok">> }

OrderedLogs ==
    Chains \cup {<<"sentinel_ok">> \o ch : ch \in Chains}
           \cup {<<"sentinel_err">>}

\* C5: for a location and a cycle the scan completes, then the query is
\* issued, then the insert, then the scan's newCutoff is written to the
\* cache; each step starts only after the step before it returned, and no
\* step is executed after a failed one.
C5_StepOrder ==
    /\ [](log \in OrderedLogs)
    /\ [][/\ pc' = "register" => (pc = "query" /\ LastOf(log) = "scan_ok")
          /\ database' # database =>
                (pc = "register" /\ LastOf(log) = "query_ok")
          /\ (timing_cache' # timing_cache /\ pc # "cutoff") =>
                (pc = "advance" /\ LastOf(log) = "insert_ok")]_vars

\* The insert was issued and returned Ok; the cutoff is not yet written.
C5_Witness ==
    /\ pc = "advance"
    /\ log = <<"sentinel_ok", "scan_ok", "query_ok", "insert_ok">>
    /\ timing_cache[location] # new_latest_time

\* The candidate has the path of no event of this plugin in the store.
Unseen(candidate) ==
    \A e \in BagToSet(database) :
       e.plugin = PluginTag => e.event.path # candidate.event.path

Count(l, steps) == Cardinality({i \in DOMAIN l : l[i] \in steps})

\* C7: the events handed to the insert are exactly the scanned candidates
\* whose path is the path of no event the one batched query (path in set,
\* this plugin's tag) returned; one query is issued, at most one insert, and
\* none when the delta is empty.
C7_DeltaIsUnseenCandidates ==
    /\ [](/\ pc = "register" => insert = SelectSeq(media, Unseen)
          /\ pc \in {"register", "advance"} =>
                Count(log, {"query_ok", "query_err"}) = 1
          /\ Count(log, {"query_ok", "query_err"}) <= 1
          /\ Count(log, {"insert_ok", "insert_err"}) <= 1)
    /\ [][/\ database' # database =>
                /\ insert # <<>>
                /\ database' = database (+) SeqToBag(insert)
          /\ (pc = "register" /\ insert = <<>>) =>
                (database' = database /\ pc' = "for" /\ log' = log)]_vars

\* The query returned an event of a candidate's path and left another
\* candidate for the insert.
C7_Witness ==
    /\ pc = "register"
    /\ insert # <<>>
    /\ Len(insert) < Len(media)

\* C8: a scan from the epoch of a location whose preceding processing was a
\* scan from the epoch that succeeded, the tree unchanged in between, leaves
\* nothing to insert.
C8_SecondFullScanInsertsNothing ==
    (/\ pc = "register"
     /\ latest_time = Epoch
     /\ tree_unchanged
     /\ last[name].cutoff = Epoch
     /\ last[name].outcome \in {"ok", "empty", "advance_err"}
     /\ last[name].complete)
       => insert = <<>>

\* The second scan from the epoch returned candidates.
C8_Witness ==
    /\ pc = "register"
    /\ latest_time = Epoch
    /\ tree_unchanged
    /\ last[name].cutoff = Epoch
    /\ last[name].outcome = "ok"
    /\ last[name].complete
    /\ last[name].delta # <<>>
    /\ media # <<>>

\* C9: a failure while a location is processed is reported and every
\* location has its processing started exactly once in the cycle.
C9_EveryLocationStartedOnce ==
    /\ \A n \in LocationNames : started[n] <= 1
    /\ (pc = "idle" /\ cycle > 0) =>
          \A n \in LocationNames :
             /\ started[n] = 1
             /\ last[n].outcome \notin {"ok", "empty"} =>
                   <<n, last[n].outcome>> \in reported

\* The first location of the cycle failed and the second one was processed.
C9_Witness ==
    /\ pc = "idle"
    /\ last[order[1]].outcome
          \in {"persist_err", "scan_err", "query_err", "insert_err"}
    /\ last[order[2]].outcome = "ok"
    /\ started[order[2]] = 1

\* The failures C10 names.
Failures ==
    {"scan_err", "query_err", "insert_err", "advance_err"}

Interval == full_reload_interval[1]

Processed ==
    IF pc = "idle" THEN (IF cycle > 0 THEN LocationNames ELSE {})
    ELSE {order[j] : j \in 1..(idx - 1)}

Scanning == pc \in {"scan", "query", "register", "advance"}

\* C11: with an interval N configured each cycle stores the counter once:
\* a counter of 0 makes the cycle a forced reload and is reset to N, a
\* counter above 0 is decremented by one and the cycle is incremental; the
\* one decision holds for every location of the cycle, which is scanned
\* from the epoch in a forced reload and from its cached cutoff otherwise.
C11_ReloadDecision ==
    (full_reload_interval # <<>> /\ cycle > 0) =>
       /\ current_remain = 0 =>
             (ignore_cache /\ full_reload_remaining = Interval)
       /\ current_remain > 0 =>
             (~ignore_cache /\ full_reload_remaining = current_remain - 1)
       /\ counter_stores = cycle
       /\ Scanning =>
             latest_time =
                IF ignore_cache THEN Epoch ELSE timing_cache[location]
       /\ \A n \in Processed :
             /\ last[n].full = ignore_cache
             /\ last[n].cutoff =
                   IF ignore_cache THEN Epoch
                   ELSE Cutoff(last[n].cached_before)

\* The second location of a forced reload is scanned from the epoch although
\* the cache holds a later cutoff for it.
C11_Witness ==
    /\ pc = "scan"
    /\ full_reload_interval # <<>>
    /\ current_remain = 0
    /\ ignore_cache
    /\ idx = 2
    /\ last[order[1]].full
    /\ location \in DOMAIN timing_cache
    /\ timing_cache[location] > Epoch
    /\ latest_time = Epoch

\* C12: from construction with interval N, cycle k is a forced reload
\* exactly when k is a multiple of N + 1 (the first N cycles are
\* incremental, cycle N + 1 is forced and resets the counter to N, and so
\* on); the counter after cycle k is N - (k mod (N + 1)).
C12_ReloadSchedule ==
    full_reload_interval # <<>> =>
       /\ cycle > 0 => ignore_cache = (cycle % (Interval + 1) = 0)
       /\ full_reload_remaining = Interval - (cycle % (Interval + 1))

\* With N = 1: an incremental cycle has followed the forced reload that
\* followed the first, incremental, cycle.
C12_Witness ==
    /\ pc = "idle"
    /\ full_reload_interval = <<1>>
    /\ cycle = 3
    /\ ~ignore_cache
    /\ \A n \in LocationNames : prev[n].full /\ ~last[n].full

\* C13: with no interval configured no cycle is a forced reload, every scan
\* uses the cached cutoff (the sentinel on a first encounter) and nothing is
\* stored to the counter.
C13_NoIntervalNoReload ==
    full_reload_interval = <<>> =>
       /\ ~ignore_cache
       /\ counter_stores = 0
       /\ full_reload_remaining = 0
       /\ Scanning =>
             /\ location \in DOMAIN timing_cache
             /\ latest_time = timing_cache[location]
       /\ \A n \in LocationNames : ~last[n].full /\ ~prev[n].full

\* A later cycle scans a location from a cutoff it cached before, the
\* counter being zero.
C13_Witness ==
    /\ full_reload_interval = <<>>
    /\ pc = "scan"
    /\ cycle > 1
    /\ full_reload_remaining = 0
    /\ latest_time > Epoch

\* The call `scan` stands for: its root, and the entries of its tree below
\* that root.
ScanRoot == Locations[scan.location_name]

Below(root) ==
    {e \in DOMAIN scan.tree : root = RootDir \/ Entry[e].parent = root}

\* The regular files whose extension, lower-cased, is one of the twelve
\* supported ones: a.jpg, sub/c.PnG and the two jpg files whose names are
\* not UTF-8; not b.txt, README, the file with the undecodable extension or
\* the symlink.
SupportedFiles == {"a", "c", "x", "y"}

\* The files a scan of the call's tree has to return.
Eligible ==
    {e \in Below(ScanRoot) \cap SupportedFiles :
        scan.tree[e] > scan.current_newest}

MaxOf(S) == CHOOSE m \in S : \A k \in S : k <= m

ItemOf(e) == Media(e, scan.location_name, scan.tree[e])

\* The regular files of the tree below the scanned root.
FilesBelow(root) == {e \in Below(root) : Entry[e].kind = "file"}

\* C14: when no file of the scanned tree, at any depth, is newer than the
\* cutoff C, the scan returns an empty list and the cutoff C.
C14_NothingNewerNothingReturned ==
    (/\ scan.state = "returned"
     /\ \A e \in FilesBelow(ScanRoot) : scan.tree[e] <= scan.current_newest)
       => /\ scan.fault = NoFault => scan.result.status = "ok"
          /\ scan.result.status = "ok" =>
                /\ scan.result.media = <<>>
                /\ scan.result.newest = scan.current_newest

\* A scan of the root returned; the tree holds supported files in the root
\* and in the subdirectory, one of them exactly as old as the cutoff.
C14_Witness ==
    /\ scan.state = "returned"
    /\ scan.fault = NoFault
    /\ ScanRoot = RootDir
    /\ {"a", "b", "c", "l"} \subseteq DOMAIN scan.tree
    /\ scan.tree["a"] = scan.current_newest
    /\ scan.tree["c"] < scan.current_newest
    /\ \A e \in FilesBelow(ScanRoot) : scan.tree[e] <= scan.current_newest
    /\ scan.result = ScanOk(<<>>, scan.current_newest)

\* C15: a scan in which no call fails returns one item for each regular
\* file, at any depth, whose lower-cased extension is supported and whose
\* modification time is later than the cutoff, and no other item; the
\* newCutoff is the largest of the cutoff and the returned items' times.
C15_ScanReturnsEligible ==
    (scan.state # "called" /\ scan.fault = NoFault) =>
       /\ scan.state = "returned"
       /\ scan.result.status = "ok"
       /\ Len(scan.result.media) = Cardinality(Eligible)
       /\ Range(scan.result.media) = {ItemOf(e) : e \in Eligible}
       /\ scan.result.newest =
             MaxOf({scan.current_newest} \cup {scan.tree[e] : e \in Eligible})

\* A scan of the root returned a.jpg and sub/c.PnG and neither the newer
\* b.txt, nor the jpg as old as the cutoff, nor the files without a
\* decodable extension.
C15_Witness ==
    /\ scan.state = "returned"
    /\ scan.fault = NoFault
    /\ ScanRoot = RootDir
    /\ DOMAIN scan.tree = ScanEntries
    /\ scan.current_newest > Epoch
    /\ scan.tree["x"] = scan.current_newest
    /\ scan.tree["b"] > scan.current_newest
    /\ Eligible = {"a", "c"}
    /\ scan.result.media = <<ItemOf("a"), ItemOf("c")>>

\* C16: a scan in which the open, the metadata or the modification time of
\* one file cannot be read returns Ok with every other eligible file.
C16_UnreadableFileIsSkipped ==
    (/\ scan.state # "called"
     /\ scan.fault.kind \in {"open", "metadata", "modified"}
     /\ scan.fault.at \in Below(ScanRoot))
       => /\ scan.state = "returned"
          /\ scan.result.status = "ok"
          /\ Range(scan.result.media) =
                {ItemOf(e) : e \in Eligible \ {scan.fault.at}}

\* C17: the scan returns, Ok or Err, on every tree and every failing call.
C17_ScanReturns ==
    scan.state # "called" =>
       (scan.state = "returned" /\ scan.result.status \in {"ok", "err"})

\* C18: a location's processing that inserted the scan's delta and wrote
\* its newCutoff had a scan that listed the whole tree: a directory that
\* cannot be opened or read to its end fails the scan.
C18_EnumerationFailureFailsScan ==
    \A n \in LocationNames : last[n].outcome = "ok" => last[n].complete

\* C19: a location with no cache entry, in a cycle that is no forced reload,
\* has the epoch persisted before it is scanned and is scanned from the
\* epoch; when persisting fails its processing ends there, with no scan, no
\* query and no insert.
C19_SentinelBeforeScan ==
    /\ (Scanning /\ ~ignore_cache) => location \in DOMAIN timing_cache
    /\ (pc = "scan" /\ log = <<"sentinel_ok">>) =>
          /\ ~ignore_cache
          /\ timing_cache[location] = Epoch
          /\ latest_time = Epoch
    /\ \A n \in LocationNames :
          last[n].outcome = "persist_err" =>
             /\ ~last[n].full
             /\ last[n].cached_before = <<>>
             /\ last[n].cached_after = <<>>
             /\ last[n].media = <<>>
             /\ last[n].delta = <<>>
    /\ (pc = "for" /\ idx > 1 /\ log # <<>> /\ log[1] = "sentinel_err") =>
          /\ log = <<"sentinel_err">>
          /\ last[order[idx - 1]].outcome = "persist_err"

\* The first location's sentinel could not be persisted and its processing
\* ended; the second location's sentinel is persisted and its scan starts.
C19_Witness ==
    /\ pc = "scan"
    /\ idx = 2
    /\ last[order[1]].outcome = "persist_err"
    /\ Locations[order[1]] \notin DOMAIN timing_cache
    /\ log = <<"sentinel_ok">>
    /\ latest_time = Epoch

\* The steps of update_media_directory.
Processing == {"cutoff", "scan", "query", "register", "advance", "hung"}

IsBusy(n) == current_status.tag = "Busy" /\ current_status.name = n

\* C20: while a location L is processed the status is Busy(L); before the
\* first cycle and between cycles it is Waiting; the Waiting of a cycle is
\* written after its last location has finished, and lasts until the first
\* location of the next cycle is taken.
C20_StatusFollowsCycle ==
    /\ pc \in Processing => IsBusy(name)
    /\ pc = "idle" =>
          /\ current_status.tag = "Waiting"
          /\ current_status.at = cycle
          /\ cycle > 0 => \A n \in LocationNames : started[n] = 1
    /\ current_status.tag = "Waiting" =>
          (pc = "idle" \/ (pc = "for" /\ idx = 1))
    /\ (pc = "for" /\ idx > 1) => IsBusy(order[idx - 1])

\* The last location of the second cycle has finished and the status still
\* names it: Waiting is not yet written.
C20_Witness ==
    /\ pc = "for"
    /\ cycle = 2
    /\ idx > Len(order)
    /\ IsBusy(order[2])
    /\ last[order[2]].outcome = "ok"

\* C21: within a cycle one location is processed at a time: while the
\* location at position idx is processed every location before it has
\* returned (with success or a reported failure) and none after it has
\* started; a processing starts with nothing of the one before pending.
C21_OneLocationAtATime ==
    pc # "idle" =>
       /\ \A j \in DOMAIN order :
             started[order[j]] =
                IF j < idx \/ (j = idx /\ pc \in Processing) THEN 1 ELSE 0
       /\ \A j \in DOMAIN order : j < idx => last[order[j]].outcome # "none"
       /\ pc = "cutoff" =>
             /\ log = <<>>
             /\ media = <<>>
             /\ already_found_media = {}
             /\ insert = <<>>

\* The second location starts after the first one's processing was
\* abandoned at a failed query.
C21_Witness ==
    /\ pc = "cutoff"
    /\ idx = 2
    /\ last[order[1]].outcome = "query_err"
    /\ started = [n \in LocationNames |-> 1]

\* C28: with an interval N configured the counter stays within 0..N, and
\* the decrement is applied only to a counter above 0, also for N = 0.
C28_CounterInRange ==
    full_reload_interval # <<>> =>
       /\ full_reload_remaining \in 0..Interval
       /\ current_remain \in 0..Interval
       /\ (cycle > 0 /\ ~ignore_cache) =>
             /\ current_remain > 0
             /\ full_reload_remaining = current_remain - 1
       /\ (cycle > 0 /\ ignore_cache) => current_remain = 0

\* With N = 1 the counter has gone 1, 0, 1, 0: decremented, reset and
\* decremented again.
C28_Witness ==
    /\ full_reload_interval = <<1>>
    /\ cycle = 3
    /\ current_remain = 1
    /\ full_reload_remaining = 0
    /\ counter_stores = 3

\* ------------------------------------------------------------ get_status
\* impl Display for ScanStatus, lines 69-76: the text of a status, as its
\* fixed prefix and the value formatted after it.
Display(status) ==
    IF status.tag = "Busy"
    THEN [prefix |-> "Busy with: ", name |-> status.name, since |-> 0]
    ELSE [prefix |-> "Waiting since: ", name |-> "-", since |-> status.at]

NoText == [prefix |-> "-", name |-> "-", since |-> 0]

\* A handler given the status as it was when the routes were built.
ManagedStatus_CopiedAtBuild == Waiting(0)

\* Line 198 and 227: the handler is given a clone of the Arc, that is the
\* plugin's own cell, and reads it under the read lock.
ManagedStatus == current_status

\* Lines 218-229.  `seen` records how many writes the cell had had.
get_status(authenticated) ==
    /\ http' = [route |-> "status", authenticated |-> authenticated,
                seen |-> status_writes,
                response |->
                   IF ~authenticated
                   THEN [status |-> "Unauthorized", some |-> FALSE,
                         body |-> NoText]
                   ELSE [status |-> "Ok", some |-> TRUE,
                         body |-> Display(ManagedStatus)]]
    /\ HandlerFrame

\* ------------------------------------------------- get_compressed_events
\* The time ranges a consumer asks for: all of time, and its last instant.
QueryRanges == {[start |-> a, end |-> MaxTime] : a \in {Epoch, MaxTime}}

\* Lines 166-171 and 173: the range filter combined with the plugin filter.
FindInRange(db, query_range) ==
    {e \in BagToSet(db) :
        /\ e.plugin = PluginTag
        /\ e.timing \in query_range.start..query_range.end}

\* A serializer that signs the item's title.
SignedMedia_SignsTitle(t, rng) ==
    [signature |-> sign_string(signing_key, rng, t.event.location_name),
     path |-> t.event.path]

\* SignedMedia { signature, path }, lines 180-183.
SignedMedia(t, rng) ==
    [signature |-> sign_string(signing_key, rng, t.event.path),
     path |-> t.event.path]

\* CompressedEvent { title, time, data }, lines 177-185.
CompressedEvent(t, rng) ==
    [title |-> t.event.location_name, time |-> t.timing,
     data |-> SignedMedia(t, rng)]

\* Lines 157-190.  The query or the cursor may fail (the two `?`), and then
\* the call returns the error; each item's signature draws its own padding.
get_compressed_events(query_range, ok) ==
    /\ LET found == FindInRange(database, query_range)
       IN \E rng \in [found -> Rngs] :
             http' = [route |-> "events", query_range |-> query_range,
                      response |->
                         [ok |-> ok,
                          result |-> IF ok
                                     THEN {CompressedEvent(t, rng[t]) :
                                              t \in found}
                                     ELSE {}]]
    /\ HandlerFrame

\* The tree the plugin finds when it is constructed and that stays as it
\* is: the file of the subdirectory and a file whose path is not UTF-8.
WebTrees == {[g \in {"c", "x"} |-> IF g = "c" THEN MaxTime ELSE 1]}

InitWeb ==
    /\ InitPluginOn(WebTrees)
    /\ order = <<"A", "B">>
    /\ scan = NoScan

\* request_loop, lines 147-155: the steps of the cycles.
NextCycle ==
    \/ update_all_locations_begin
    \/ update_all_locations_busy
    \/ update_all_locations_end
    \/ update_media_directory_cutoff
    \/ update_media_directory_scan
    \/ update_media_directory_query
    \/ update_media_directory_register
    \/ update_media_directory_advance

\* The cycles, with status queries arriving at any point of them.
NextStatus ==
    \/ NextCycle
    \/ \E authenticated \in BOOLEAN : get_status(authenticated)

SpecStatus == InitWeb /\ [][NextStatus]_vars

\* The cycles, with consumers' event queries arriving at any point.
NextEvents ==
    \/ NextCycle
    \/ \E query_range \in QueryRanges, ok \in BOOLEAN :
          get_compressed_events(query_range, ok)

SpecEvents == InitWeb /\ [][NextEvents]_vars

\* The cycles on their own, under the scheduling the host gives them: the
\* host awaits request_loop (147-155) and the executor keeps polling the
\* future, so a step of the cycle that can be taken is taken in the end.
SpecCycle == InitWeb /\ [][NextCycle]_vars /\ WF_vars(NextCycle)

\* ------------------------------------------------------------ C22 .. C26
\* The request's signature is what sign_string gives for the request's
\* path under the configured key, for some random padding.
Genuine(file, signature) ==
    \E r \in Rngs : signature = sign_string(signing_key, r, file)

Refused ==
    [status |-> "Unauthorized", some |-> FALSE, body |-> NoBody,
     open_called |-> FALSE]

\* C22: get_file calls File::open for a request {path, signature} only if
\* verify(path, signature) holds; whenever verify is false the handler
\* returns 401 with no body and no file is opened, whatever the path.
C22_OnlyVerifiedRequestsOpen ==
    http.route = "file" =>
       LET verified == verify_string(verifying_key, http.file, http.signature)
       IN /\ (http.response.open_called \/ http.response.body.ok) => verified
          /\ ~verified => /\ http.response.status = "Unauthorized"
                          /\ ~http.response.some
                          /\ ~http.response.open_called
                          /\ ~http.response.body.ok

C22_Witness ==
    /\ http.route = "file"
    /\ http.file = "/etc/passwd"
    /\ http.signature = sign_string(signing_key, "r1", IndexedPath)
    /\ http.response.status = "Unauthorized"
    /\ ~http.response.open_called

C25_VerifyFailsClosed ==
    (http.route = "file" /\ ~Genuine(http.file, http.signature)) =>
       /\ verify_string(verifying_key, http.file, http.signature) = FALSE
       /\ http.response = Refused

C25_Witness ==
    /\ http.route = "file"
    /\ http.file = IndexedPath
    /\ http.signature.alphabet = "none"
    /\ http.response = Refused

\* A string that can be the path of a file: it holds no NUL byte.
WellFormedPath(file) == file # NulPath

\* C26: a request whose signature verifies but whose path is not a
\* well-formed file system path is answered with 400, no body, and
\* File::open is not called.
C26_IllFormedPathIsBadRequest ==
    (/\ http.route = "file"
     /\ verify_string(verifying_key, http.file, http.signature)
     /\ ~WellFormedPath(http.file)) =>
       /\ http.response.status = "BadRequest"
       /\ ~http.response.some
       /\ ~http.response.open_called

\* ---------------------------------------------------------------- C23
\* C23: every item get_compressed_events returns carries its path and a
\* signature that sign_string made over exactly that path, so that
\* verify_string accepts the pair and get_file does not refuse it; and the
\* items are events of this plugin, titled with a configured location.
C23_ReturnedPathsAreSigned ==
    (http.route = "events" /\ http.response.ok) =>
       \A item \in http.response.result :
          /\ Genuine(item.data.path, item.data.signature)
          /\ verify_string(verifying_key, item.data.path, item.data.signature)
          /\ get_file_response(item.data.path,
                               item.data.signature).status = "Ok"
          /\ item.title \in LocationNames
          /\ \E e \in BagToSet(database) :
                /\ e.plugin = PluginTag
                /\ e.event.path = item.data.path
                /\ e.timing = item.time
                /\ e.timing \in http.query_range.start..http.query_range.end

C23_Witness ==
    /\ http.route = "events"
    /\ http.response.ok
    /\ http.query_range.start = Epoch
    /\ {item.data.path : item \in http.response.result}
          = {IndexedPath, "default"}
    /\ \E a, b \in http.response.result :
          a.data.signature.bytes.pad # b.data.signature.bytes.pad

\* ---------------------------------------------------------------- C27
\* C27: a status query made at any point of a cycle returns the text of the
\* value most recently written to the status cell, Busy with a configured
\* location name or Waiting, and the query leaves the status cell, the
\* countdown counter, the timing cache and the store as they are.
C27_StatusQueryReadsLatest ==
    /\ [](http.route = "status" =>
            /\ http.seen <= status_writes
            /\ http.response.some = http.authenticated
            /\ (http.authenticated /\ http.seen = status_writes) =>
                  IF current_status.tag = "Busy"
                  THEN /\ http.response.body.prefix = "Busy with: "
                       /\ http.response.body.name = current_status.name
                       /\ current_status.name \in LocationNames
                  ELSE /\ http.response.body.prefix = "Waiting since: "
                       /\ http.response.body.since = current_status.at)
    /\ [][(http' # http /\ http'.route = "status") =>
             UNCHANGED <<current_status, full_reload_remaining, timing_cache,
                         database, status_writes>>]_vars

C27_Witness ==
    /\ http.route = "status"
    /\ http.authenticated
    /\ http.seen = status_writes
    /\ pc = "query"
    /\ idx = 2
    /\ current_status.tag = "Busy"
    /\ http.response.body.prefix = "Busy with: "
    /\ http.response.body.name = "B"

\* ---------------------------------------------------------------- C29
\* C29: every cycle that has started comes to its end with Waiting written
\* to the status cell, whatever calls fail on the way.
C29_CycleEndsWaiting ==
    (pc # "idle") ~> (pc = "idle" /\ current_status.tag = "Waiting")

\* ---------------------------------------------------------------- C30
\* The supported files of the tree that share the path string of file f,
\* and the events of this plugin in the store that carry that path string.
FilesNamed(f) ==
    {g \in DOMAIN fs \cap SupportedFiles : PathString(g) = PathString(f)}

EventsNamed(f) ==
    {e \in BagToSet(database) :
        e.plugin = PluginTag /\ e.event.path = PathString(f)}

StoredCopies(S) ==
    IF S = {} THEN 0
    ELSE LET e == CHOOSE e \in S : TRUE
         IN CopiesIn(e, database) + Cardinality(S \ {e})

\* C30: with an interval configured and no call ever failing, when a forced
\* reload cycle has ended, on the tree it ran on, every supported file
\* modified after the epoch has an event of its own in the store, whatever
\* its modification time is against the cached cutoffs: the files of one
\* path string are not more than the events of that path string.
C30_ReloadIndexesEveryFile ==
    (/\ pc = "idle"
     /\ cycle > 0
     /\ ignore_cache
     /\ faults = 0
     /\ tree_unchanged
     /\ full_reload_interval # <<>>) =>
       \A f \in DOMAIN fs \cap SupportedFiles :
          fs[f] > Epoch =>
             Cardinality(FilesNamed(f)) <= StoredCopies(EventsNamed(f))

\* ---------------------------------------------------------------- C31
\* C31: a step that changes the timing cache is a step of the processing
\* of one location, and it changes at most the entry keyed by that
\* location's root path; in a forced reload the scan's cutoff is the epoch
\* and the only write to the cache is the new cutoff, after the insert
\* returned Ok.
C31_CacheFrame ==
    /\ []((Scanning /\ ignore_cache) => latest_time = Epoch)
    /\ [][timing_cache' # timing_cache =>
             /\ pc \in {"cutoff", "advance"}
             /\ \A l \in (DOMAIN timing_cache \cup DOMAIN timing_cache')
                          \ {location} :
                   CacheGet(timing_cache', l) = CacheGet(timing_cache, l)
             /\ ignore_cache =>
                   /\ pc = "advance"
                   /\ LastOf(log) = "insert_ok"
                   /\ insert # <<>>
                   /\ timing_cache' =
                         [l \in DOMAIN timing_cache \cup {location} |->
                             IF l = location THEN new_latest_time
                             ELSE timing_cache[l]]]_vars

C31_Witness ==
    /\ pc = "for"
    /\ ignore_cache
    /\ order = <<"A", "B">>
    /\ idx = 3
    /\ last["B"].outcome = "ok"
    /\ last["B"].cached_before = <<>>
    /\ last["B"].cached_after # <<>>
    /\ RootDir \in DOMAIN timing_cache
    /\ SubDir \in DOMAIN timing_cache

\* ---------------------------------------------------------------- C32
\* C32: the items one scan of a location returned have pairwise different
\* paths, and each item's path is the file system path of a file of the
\* tree with the item's modification time, also for file names that are
\* not valid UTF-8.
C32_ItemsCarryTheirFilesPaths ==
    pc = "query" =>
       /\ \A i, j \in DOMAIN media :
             media[i].event.path = media[j].event.path => i = j
       /\ \A i \in DOMAIN media :
             /\ media[i].id = media[i].event.path
             /\ \E f \in DOMAIN fs :
                   /\ Entry[f].path = media[i].event.path
                   /\ fs[f] = media[i].event.time_modified

\* ---------------------------------------------------------------- C33
\* The counter after k cycles run one after the other.
RECURSIVE CounterAfter(_)
CounterAfter(k) ==
    IF k = 0 THEN InitialRemaining(full_reload_interval)
    ELSE RemainingAfter(full_reload_interval, CounterAfter(k - 1))

\* C33: when invocations of the cycle overlap, once none of them is between
\* its load and its store the counter has the value that as many cycles
\* run one after the other leave: every invocation decremented it by one
\* or reset it to N, and no decrement is lost.
C33_CountdownIsAtomic ==
    (/\ full_reload_interval # <<>>
     /\ \A t \in Invocations : invocation[t].pc # "loaded") =>
       full_reload_remaining = CounterAfter(counter_stores)

====
